---- MODULE Spec2Model ----
(***************************************************************************)
(* Timeline engine of the MyMath Remotion renderer.                        *)
(*                                                                         *)
(*   calculateMetadata  (remotion/src/Root.tsx, the per-scene-audio        *)
(*                       revision)  -- the metadata phase: one audio probe *)
(*                       per scene, awaited inside a for loop, producing   *)
(*                       sceneDurations and durationInFrames.              *)
(*   MathVideo          (remotion/src/compositions/MathVideo.tsx) -- the   *)
(*                       scheduler (sceneStarts) and the audio placement.  *)
(*   render-api.js      the render server: ensureBundle and POST /render.  *)
(*   legacy Root.tsx / MathVideo.tsx  the hint-duration revision: a title  *)
(*                       card and scene.duration seconds per scene.        *)
(*   child page         (frontend) loadAttempts and chooseChild.           *)
(*                                                                         *)
(* Array indices are the code's 0-based indices; element i of a JavaScript *)
(* array is element i + 1 of the sequence that models it.  Times that the  *)
(* code holds as floating-point seconds are exact rationals here: audio    *)
(* durations are whole milliseconds, Math.round(n / d) is RoundDiv(n, d).  *)
(***************************************************************************)
EXTENDS Integers, Sequences, FiniteSets, TLC

VARIABLES
    script,            \* props.script.scenes
    audioUrls,         \* props.audioUrls ("" models a falsy entry; <<>> also models undefined)
    audioUrl,          \* props.audioUrl ("" models undefined)
    inSceneDurations,  \* props.sceneDurations as handed to calculateMetadata (<<>> models undefined)
    pc,                \* position of calculateMetadata: "off" (not called), "loop",
                       \* "await", "done", "error", "unused" (MathVideo evaluated without it)
    i,                 \* loop index of calculateMetadata
    sceneDurations,    \* the local array built by calculateMetadata
    totalFrames,       \* the local accumulator of calculateMetadata
    probes,            \* outcome of getAudioDurationInSeconds per scene (history)
    visualFrames,      \* the visualFrames constant computed for each probed scene (history)
    durationInFrames,  \* the durationInFrames returned by calculateMetadata
    vpc,               \* position of MathVideo: "idle", "rendered", "threw"
    vSceneDurations,   \* the sceneDurations prop MathVideo was rendered with
    sceneStarts,       \* MathVideo's sceneStarts: sequence of [start, dur]
    audioSeqs,         \* the <Sequence><Audio/> elements MathVideo emitted: [idx, from]
    sceneItems,        \* per scene, what its scene component rendered: [layout, total, delays]
    prevRun,           \* what the previous run of calculateMetadata returned (history)
    reqBody,           \* req.body of the POST /render being handled
    spc,               \* position of the /render handler
    res,               \* HTTP status the handler responded with (0: no response yet)
    inputProps,        \* the inputProps object the handler built
    bundled,           \* render-api.js module variable: 0 models null, else a bundle id
    bundleCalls,       \* number of bundle() invocations so far (history)
    ensure,            \* per caller of ensureBundle: [pc, id, got]
    legacyScenes,      \* legacy script: scene.duration per scene, in hundredths of a second
    lpc,               \* position of the legacy composition: "idle", "rendered"
    legacyStarts,      \* legacy sceneStarts: [start, dur] in hundredths of a frame
    legacyDuration,    \* durationInFrames returned by the legacy calculateMetadata
    selectedChildId,   \* child page state: "" models null
    requests,          \* api.getActivity calls in issue order: [childId, status]
    attempts           \* child page state: the child whose records are shown, "" for []

vars == <<script, audioUrls, audioUrl, inSceneDurations, pc, i, sceneDurations,
          totalFrames, probes, visualFrames, durationInFrames, vpc,
          vSceneDurations, sceneStarts, audioSeqs, sceneItems, prevRun,
          reqBody, spc, res, inputProps, bundled, bundleCalls, ensure,
          legacyScenes, lpc, legacyStarts, legacyDuration,
          selectedChildId, requests, attempts>>

metaVars == <<pc, i, sceneDurations, totalFrames, probes, visualFrames, durationInFrames>>
propVars == <<script, audioUrls, audioUrl, inSceneDurations>>
videoVars == <<vpc, vSceneDurations, sceneStarts, audioSeqs, sceneItems>>
serverVars == <<reqBody, spc, res, inputProps>>
bundleVars == <<bundled, bundleCalls, ensure>>
legacyVars == <<legacyScenes, lpc, legacyStarts, legacyDuration>>
pageVars == <<selectedChildId, requests, attempts>>
\* everything outside the current composition
envVars == <<prevRun, serverVars, bundleVars, legacyVars, pageVars>>

----------------------------------------------------------------------------
(* Bounds *)

MaxScenes == 3        \* longest script of the multi-scene specification
MaxNarrLen == 4       \* longest generated narration, in characters
MaxAudioSteps == 1    \* probed audio durations are 0 .. MaxAudioSteps steps of 2.4 s
MaxCount == 4         \* largest |count| among the small generated counts
MaxRequests == 3      \* api.getActivity calls issued on the child page

(* Program constants *)

FPS == 24

----------------------------------------------------------------------------
(* Arithmetic helpers *)

Max(a, b) == IF a >= b THEN a ELSE b
Min(a, b) == IF a <= b THEN a ELSE b

\* Math.round(n / d) for d > 0: the nearest integer, halves towards +infinity.
RoundDiv(n, d) == (2 * n + d) \div (2 * d)

\* JavaScript's  a || b  on numbers (0, NaN and undefined are all modelled as 0).
OrElse(a, b) == IF a # 0 THEN a ELSE b

----------------------------------------------------------------------------
(* Strings: a narration is a sequence of one-character strings. *)

\* The characters that the regular expression class \s and String.trim() treat as white space.
IsWs(c) == c \in {" ", "\t", "\n"}

\* String.prototype.trim(): drop the leading and the trailing white space.
RECURSIVE TrimStart(_)
TrimStart(s) ==
    IF s = <<>> THEN <<>>
    ELSE IF IsWs(Head(s)) THEN TrimStart(Tail(s)) ELSE s

RECURSIVE TrimEnd(_)
TrimEnd(s) ==
    IF s = <<>> THEN <<>>
    ELSE IF IsWs(s[Len(s)]) THEN TrimEnd(SubSeq(s, 1, Len(s) - 1)) ELSE s

trim(s) == TrimEnd(TrimStart(s))

\* String.prototype.split(/\s+/): cut at every maximal run of white space and
\* keep every piece, the empty piece before a leading run and after a trailing
\* run included.  k is the next position to read, acc the pieces already cut,
\* cur the piece being read.
RECURSIVE SplitFrom(_, _, _, _)
SplitFrom(s, k, acc, cur) ==
    IF k > Len(s) THEN Append(acc, cur)
    ELSE IF IsWs(s[k])
         THEN IF k < Len(s) /\ IsWs(s[k + 1])
              THEN SplitFrom(s, k + 1, acc, cur)
              ELSE SplitFrom(s, k + 1, Append(acc, cur), <<>>)
         ELSE SplitFrom(s, k + 1, acc, Append(cur, s[k]))

split(s) == SplitFrom(s, 1, <<>>, <<>>)

----------------------------------------------------------------------------
(* Scene Visual-Completion Estimator: getVisualFrames of calculateMetadata *)

\* total of an item scene, as getVisualFrames computes it
EstimatorTotal(scene) ==
    IF scene.action = "GROUP_ITEMS"
    THEN LET g == Min(OrElse(scene.groups, 3), 10)
             pg == Min(OrElse(scene.per_group, OrElse(scene.count, 4)), 12)
         IN  g * pg
    ELSE Min(OrElse(scene.count, 5), 30)

\* variant: the entrance delays are budgeted over 30 frames
EstimatorStaggerThirty(total) ==
    LET m == Max(1, total)
    IN  [num |-> Max(m, 30), den |-> m]

\* Math.max(1, 40 / Math.max(1, total)) as the fraction num / den
EstimatorStagger(total) ==
    LET m == Max(1, total)
    IN  [num |-> Max(m, 40), den |-> m]

\* variant: the wedges of a SPLIT_ITEM scene get the 30-frame settle time of the items
getVisualFramesSplitSettle(scene) ==
    IF scene.action = "SHOW_EQUATION" THEN 30
    ELSE IF scene.action = "SPLIT_ITEM"
    THEN LET denom == Max(OrElse(scene.denominator, 4), 1)
         IN  RoundDiv((denom - 1) * 6 + 30, 1)
    ELSE LET total == EstimatorTotal(scene)
             stagger == EstimatorStagger(total)
             maxDelayNum == (total - 1) * stagger.num
         IN  RoundDiv(maxDelayNum + 30 * stagger.den, stagger.den)

getVisualFrames(scene) ==
    IF scene.action = "SHOW_EQUATION" THEN 30
    ELSE IF scene.action = "SPLIT_ITEM"
    THEN LET denom == Max(OrElse(scene.denominator, 4), 1)
         IN  RoundDiv((denom - 1) * 6 + 25, 1)
    ELSE LET total == EstimatorTotal(scene)
             stagger == EstimatorStagger(total)
             \* maxDelay = (total - 1) * stagger, a fraction over stagger.den
             maxDelayNum == (total - 1) * stagger.num
         IN  RoundDiv(maxDelayNum + 30 * stagger.den, stagger.den)

----------------------------------------------------------------------------
(* Duration Negotiator: the branches of the loop body of calculateMetadata *)

\* variant: the one-second lead-in is left out
AudioFramesNoLeadIn(ms) == RoundDiv(ms * FPS, 1000)

\* Math.round((audioSecs + 1.0) * FPS), audioSecs = ms / 1000
AudioFrames(ms) == RoundDiv((ms + 1000) * FPS, 1000)

\* the try branch: Math.max(audioFrames, visualFrames + Math.round(FPS * 0.5))
NegotiatedFrames(scene, ms) ==
    Max(AudioFrames(ms), getVisualFrames(scene) + RoundDiv(FPS * 5, 10))

\* variant: the 1.5 seconds of breathing room are left out
WordFramesNoBreathing(wordCount, rate) == RoundDiv(Max(30, 4 * wordCount) * rate, 10)

\* Math.round(Math.max(3, wordCount / 2.5 + 1.5) * fps);
\* wordCount / 2.5 + 1.5 = (4 * wordCount + 15) / 10
WordFrames(wordCount, fps) == RoundDiv(Max(30, 4 * wordCount + 15) * fps, 10)

\* the "Legacy fallback logic" branch of calculateMetadata
LegacyFallbackFrames(narration) ==
    IF narration = <<>> \/ trim(narration) = <<>>
    THEN 4 * FPS
    ELSE WordFrames(Len(split(narration)), FPS)

\* variant: the catch branch falls back to three seconds
ProbeFailureFramesShort == 3 * FPS

\* the catch branch
ProbeFailureFrames == 4 * FPS

----------------------------------------------------------------------------
(* Inputs *)

Scene(action, count, groups, per_group, denominator, narration) ==
    [action |-> action, count |-> count, groups |-> groups,
     per_group |-> per_group, denominator |-> denominator,
     narration |-> narration]

\* "3 plus 5 equals 8! Great job!", the narration of the third default scene
ScenarioANarration ==
    <<"3", " ", "p", "l", "u", "s", " ", "5", " ", "e", "q", "u", "a", "l", "s",
      " ", "8", "!", " ", "G", "r", "e", "a", "t", " ", "j", "o", "b", "!">>

\* "Let's start with 3 red apples!", the narration of the first default scene
DefaultNarration ==
    <<"L", "e", "t", "'", "s", " ", "s", "t", "a", "r", "t", " ", "w", "i", "t",
      "h", " ", "3", " ", "r", "e", "d", " ", "a", "p", "p", "l", "e", "s", "!">>

\* every string of at most n characters over one letter and the blank
RECURSIVE StringsUpTo(_)
StringsUpTo(n) ==
    IF n = 0 THEN {<<>>}
    ELSE LET shorter == StringsUpTo(n - 1)
         IN  shorter \cup {Append(s, c) : s \in shorter, c \in {"a", " "}}

\* words of one letter around single blanks, with optional blanks at either end
PaddedNarrations ==
    {<<"a", " ", "a", " ", "a", " ", "a">>,
     <<" ", "a", " ", "a", " ", "a">>,
     <<"a", " ", "a", " ", "a", " ">>,
     <<" ", "a", " ", "a", " ", "a", " ">>,
     <<"a", " ", " ", "a", "\t", "a", "\n", "a", " ", "a">>}

Narrations == StringsUpTo(MaxNarrLen) \cup PaddedNarrations
                 \cup {ScenarioANarration, DefaultNarration}

Actions == {"ADD_ITEMS", "REMOVE_ITEMS", "GROUP_ITEMS", "SPLIT_ITEM",
            "SHOW_EQUATION", "HIGHLIGHT", "UNKNOWN"}

\* numeric fields: small values of either sign, 0 (absent) and values around the caps
Counts == (-MaxCount .. MaxCount) \cup {16, 29, 30, 31, 45}
Groups == (-1 .. MaxCount) \cup {10, 11}
PerGroups == (-1 .. MaxCount) \cup {5, 12, 13}
Denominators == (-1 .. MaxCount) \cup {6, 8}

\* the scenes of the scripts of more than one scene: the three default scenes
\* of Root.tsx, the last one also without narration, and the grouped scene
ScriptScenes ==
    {Scene("ADD_ITEMS", 3, 0, 0, 0, DefaultNarration),
     Scene("SHOW_EQUATION", 0, 0, 0, 0, ScenarioANarration),
     Scene("GROUP_ITEMS", 0, 4, 5, 0, <<>>)}

\* the scenes of the one-scene scripts: every visual shape with two
\* narrations, and two visual shapes with every narration
VisualScenes ==
    {Scene(a, c, 0, 0, 0, n) :
        a \in Actions \ {"GROUP_ITEMS", "SPLIT_ITEM"}, c \in Counts,
        n \in {<<>>, ScenarioANarration}}
    \cup {Scene("GROUP_ITEMS", c, g, pg, 0, n) :
        c \in {0, 2}, g \in Groups, pg \in PerGroups,
        n \in {<<>>, ScenarioANarration}}
    \cup {Scene("SPLIT_ITEM", 0, 0, 0, d, n) :
        d \in Denominators, n \in {<<>>, ScenarioANarration}}

NarratedScenes ==
    {Scene(a, 3, 0, 0, 0, n) : a \in {"ADD_ITEMS", "SHOW_EQUATION"}, n \in Narrations}

SingleScenes == VisualScenes \cup NarratedScenes

RECURSIVE SeqsOfLen(_, _)
SeqsOfLen(S, n) ==
    IF n = 0 THEN {<<>>}
    ELSE {Append(q, x) : q \in SeqsOfLen(S, n - 1), x \in S}

SeqsUpTo(S, n) == UNION {SeqsOfLen(S, k) : k \in 0 .. n}

Scripts ==
    {<<sc>> : sc \in SingleScenes}
    \cup UNION {SeqsOfLen(ScriptScenes, n) : n \in 2 .. MaxScenes}

\* the scene lists of the requests, the empty list included
RequestScripts == SeqsUpTo(ScriptScenes, MaxScenes)

\* per-scene audio references: "" is a missing clip; the array may be shorter
\* than the script or one entry longer
AudioUrlArrays(n) == SeqsUpTo({"", "clip"}, n + 1)

\* a precomputed duration array: absent, or one value for every scene
DurationArrays(n) == {<<>>} \cup {[k \in 1 .. n |-> v] : v \in {0, 2 * FPS}}

\* results of getAudioDurationInSeconds, in milliseconds
AudioMs == {k * 2400 : k \in 0 .. MaxAudioSteps}

NoProbe == [kind |-> "none", ms |-> 0]

\* getVisualFrames has not been called for the scene
NoVisual == [computed |-> FALSE, frames |-> 0]

\* the audio and duration props explored for a script of n scenes: every
\* audioUrls array on its own; the legacy single track, which MathVideo reads
\* only without audioUrls; a precomputed duration array without audio
\* references and with a clip for every scene
RequestProps(n) ==
    {[audioUrls |-> u, audioUrl |-> "", sceneDurations |-> <<>>] :
        u \in AudioUrlArrays(n)}
    \cup {[audioUrls |-> <<>>, audioUrl |-> "track", sceneDurations |-> d] :
        d \in DurationArrays(n)}
    \cup {[audioUrls |-> u, audioUrl |-> "", sceneDurations |-> d] :
        u \in {<<>>, [k \in 1 .. n |-> "clip"]}, d \in DurationArrays(n)}

----------------------------------------------------------------------------
(* State machine *)

\* no earlier run of calculateMetadata
NoRun == [ran |-> FALSE, probes |-> <<>>, sceneDurations |-> <<>>, durationInFrames |-> 0]

\* the callers of ensureBundle: the pre-bundle of app.listen and the /render handlers
Callers == {"startup", "render1", "render2"}

\* a caller that has not called ensureBundle
NotCalled == [pc |-> "idle", id |-> 0, got |-> 0]

\* the render server before any request: let bundled = null
ServerIdle ==
    /\ reqBody = [kind |-> "none"]
    /\ spc = "idle"
    /\ res = 0
    /\ inputProps = [kind |-> "none"]
    /\ bundled = 0
    /\ bundleCalls = 0
    /\ ensure = [c \in Callers |-> NotCalled]

\* the legacy composition not evaluated
LegacyIdle ==
    /\ legacyScenes = <<>>
    /\ lpc = "idle"
    /\ legacyStarts = <<>>
    /\ legacyDuration = 0

\* the child page after mounting: no child selected, attempts = []
PageIdle ==
    /\ selectedChildId = ""
    /\ requests = <<>>
    /\ attempts = ""

\* nothing outside the composition has happened
EnvIdle ==
    /\ prevRun = NoRun
    /\ ServerIdle
    /\ LegacyIdle
    /\ PageIdle

TypeOK ==
    /\ script \in Scripts
    /\ pc \in {"loop", "await", "done", "error", "unused"}
    /\ i \in 0 .. Len(script)
    /\ Len(sceneDurations) <= Len(script)
    /\ totalFrames \in Int
    /\ vpc \in {"idle", "rendered", "threw"}

Init ==
    /\ script \in Scripts
    /\ \E r \in RequestProps(Len(script)) :
          /\ audioUrls = r.audioUrls
          /\ audioUrl = r.audioUrl
          /\ inSceneDurations = r.sceneDurations
    /\ pc = "loop"
    /\ i = 0
    /\ sceneDurations = <<>>
    /\ totalFrames = 0
    /\ probes = [k \in 1 .. Len(script) |-> NoProbe]
    /\ visualFrames = [k \in 1 .. Len(script) |-> NoVisual]
    /\ durationInFrames = 0
    /\ vpc = "idle"
    /\ vSceneDurations = <<>>
    /\ sceneStarts = <<>>
    /\ audioSeqs = <<>>
    /\ sceneItems = <<>>
    /\ EnvIdle

\* audioUrls[i] of calculateMetadata: undefined (modelled "") beyond the array
UrlAt(urls, k) == IF k + 1 <= Len(urls) THEN urls[k + 1] ELSE ""

\* sceneDurations.push(frames); totalFrames += frames; and the loop's i++
PushFrames(frames) ==
    /\ sceneDurations' = Append(sceneDurations, frames)
    /\ totalFrames' = totalFrames + frames
    /\ i' = i + 1

\* variant: a scene without audio reference is skipped, nothing is pushed
LoopNoUrlSkipped ==
    /\ pc = "loop"
    /\ i < Len(script)
    /\ UrlAt(audioUrls, i) = ""
    /\ i' = i + 1
    /\ UNCHANGED <<pc, sceneDurations, totalFrames, probes, visualFrames, durationInFrames>>
    /\ UNCHANGED <<propVars, videoVars, envVars>>

\* loop body, else branch: the scene has no audio reference
LoopNoUrl ==
    /\ pc = "loop"
    /\ i < Len(script)
    /\ UrlAt(audioUrls, i) = ""
    /\ PushFrames(LegacyFallbackFrames(script[i + 1].narration))
    /\ UNCHANGED <<pc, probes, visualFrames, durationInFrames>>
    /\ UNCHANGED <<propVars, videoVars, envVars>>

\* loop body, if branch up to the await: the probe of scene i is issued and
\* calculateMetadata is suspended until it settles
IssueProbe ==
    /\ pc = "loop"
    /\ i < Len(script)
    /\ UrlAt(audioUrls, i) # ""
    /\ pc' = "await"
    /\ probes' = [probes EXCEPT ![i + 1] = [kind |-> "pending", ms |-> 0]]
    /\ UNCHANGED <<i, sceneDurations, totalFrames, visualFrames, durationInFrames>>
    /\ UNCHANGED <<propVars, videoVars, envVars>>

\* the awaited promise fulfils with audioSecs = ms / 1000: rest of the try block
ProbeResolve(ms) ==
    /\ pc = "await"
    /\ probes' = [probes EXCEPT ![i + 1] = [kind |-> "ok", ms |-> ms]]
    /\ visualFrames' = [visualFrames EXCEPT
           ![i + 1] = [computed |-> TRUE, frames |-> getVisualFrames(script[i + 1])]]
    /\ PushFrames(NegotiatedFrames(script[i + 1], ms))
    /\ pc' = "loop"
    /\ UNCHANGED durationInFrames
    /\ UNCHANGED <<propVars, videoVars, envVars>>

\* variant: no try/catch, the rejection leaves calculateMetadata as an error
ProbeThrowUncaught ==
    /\ pc = "await"
    /\ probes' = [probes EXCEPT ![i + 1] = [kind |-> "throw", ms |-> 0]]
    /\ pc' = "error"
    /\ UNCHANGED <<i, sceneDurations, totalFrames, visualFrames, durationInFrames>>
    /\ UNCHANGED <<propVars, videoVars, envVars>>

\* variant: the try/catch is around the loop, a rejection ends the loop
ProbeThrowEndsLoop ==
    /\ pc = "await"
    /\ probes' = [probes EXCEPT ![i + 1] = [kind |-> "throw", ms |-> 0]]
    /\ sceneDurations' = Append(sceneDurations, ProbeFailureFrames)
    /\ totalFrames' = totalFrames + ProbeFailureFrames
    /\ i' = Len(script)
    /\ pc' = "loop"
    /\ UNCHANGED <<visualFrames, durationInFrames>>
    /\ UNCHANGED <<propVars, videoVars, envVars>>

\* variant: the catch block pushes the fallback but does not add it to totalFrames
ProbeThrowNotCounted ==
    /\ pc = "await"
    /\ probes' = [probes EXCEPT ![i + 1] = [kind |-> "throw", ms |-> 0]]
    /\ sceneDurations' = Append(sceneDurations, ProbeFailureFrames)
    /\ i' = i + 1
    /\ pc' = "loop"
    /\ UNCHANGED <<totalFrames, visualFrames, durationInFrames>>
    /\ UNCHANGED <<propVars, videoVars, envVars>>

\* the awaited promise rejects: the catch block
ProbeThrow ==
    /\ pc = "await"
    /\ probes' = [probes EXCEPT ![i + 1] = [kind |-> "throw", ms |-> 0]]
    /\ PushFrames(ProbeFailureFrames)
    /\ pc' = "loop"
    /\ UNCHANGED <<visualFrames, durationInFrames>>
    /\ UNCHANGED <<propVars, videoVars, envVars>>

\* loop exit and the return statement
Return ==
    /\ pc = "loop"
    /\ i >= Len(script)
    /\ durationInFrames' = totalFrames
    /\ pc' = "done"
    /\ UNCHANGED <<i, sceneDurations, totalFrames, probes, visualFrames>>
    /\ UNCHANGED <<propVars, videoVars, envVars>>

----------------------------------------------------------------------------
(* Scene Dispatcher and Item Animator: sceneComponent and components/Scenes *)

\* variant: the entrance delays are spread over 50 frames
AnimatorStaggerFifty(total) ==
    CASE total >= 1 -> [num |-> Max(total, 50), den |-> total]
      [] total < 0 -> [num |-> 1, den |-> 1]

\* AnimatedItem: Math.max(1, 40 / total) as the fraction num / den; 40 / total
\* is negative for a negative total, and no item is rendered with total 0
AnimatorStagger(total) ==
    CASE total >= 1 -> [num |-> Max(total, 40), den |-> total]
      [] total < 0 -> [num |-> 1, den |-> 1]

\* variant: the delays run backwards, the first item entering last
AnimatorDelayDescending(index, total) ==
    LET stagger == AnimatorStagger(total)
    IN  RoundDiv((total - 1 - index) * stagger.num, stagger.den)

\* AnimatedItem: Math.round(index * stagger)
AnimatorDelay(index, total) ==
    LET stagger == AnimatorStagger(total)
    IN  RoundDiv(index * stagger.num, stagger.den)

\* Array.from({ length: n }): no element for n <= 0
ArrayLength(n) == Max(n, 0)

\* CounterScene: visualCount AnimatedItems with index 0 .. visualCount - 1
CounterScene(scene) ==
    LET realCount == OrElse(scene.count, 5)
        visualCount == Min(realCount, 30)
    IN  [layout |-> "Counter",
         total |-> visualCount,
         delays |-> [n \in 1 .. ArrayLength(visualCount) |->
                        AnimatorDelay(n - 1, visualCount)]]

\* GroupScene: groups boxes of perGroup AnimatedItems, item ii of box gi has
\* index gi * perGroup + ii; the items are listed box after box
GroupScene(scene) ==
    LET groups == Min(OrElse(scene.groups, 3), 10)
        perGroup == Min(OrElse(scene.per_group, OrElse(scene.count, 4)), 12)
    IN  [layout |-> "Group",
         total |-> groups * perGroup,
         delays |-> [n \in 1 .. ArrayLength(groups) * ArrayLength(perGroup) |->
                        LET gi == (n - 1) \div perGroup
                            ii == (n - 1) % perGroup
                        IN  AnimatorDelay(gi * perGroup + ii, groups * perGroup)]]

\* FractionScene: denominator wedges, wedge i revealed from frame i * 6
FractionScene(scene) ==
    LET denominator == Max(OrElse(scene.denominator, 4), 1)
    IN  [layout |-> "Fraction",
         total |-> denominator,
         delays |-> [n \in 1 .. ArrayLength(denominator) |-> (n - 1) * 6]]

\* EquationScene: one card, no item
EquationScene(scene) == [layout |-> "Equation", total |-> 0, delays |-> <<>>]

\* sceneComponent: the switch on scene.action with its default arm
sceneComponent(scene) ==
    CASE scene.action \in {"ADD_ITEMS", "REMOVE_ITEMS", "HIGHLIGHT"} -> CounterScene(scene)
      [] scene.action = "GROUP_ITEMS" -> GroupScene(scene)
      [] scene.action = "SPLIT_ITEM" -> FractionScene(scene)
      [] scene.action = "SHOW_EQUATION" -> EquationScene(scene)
      [] OTHER -> CounterScene(scene)

----------------------------------------------------------------------------
(* MathVideo: Timeline Scheduler and Audio Track Aligner *)

\* useVideoConfig().fps: the fps attribute of the Composition
fps == FPS

\* the body of the sceneStarts map callback that chooses dur for scene k
SceneDur(scene, sd, k) ==
    IF k + 1 <= Len(sd) /\ sd[k + 1] # 0
    THEN sd[k + 1]
    ELSE IF scene.narration = <<>> \/ trim(scene.narration) = <<>>
    THEN 4 * fps
    ELSE WordFrames(Len(split(scene.narration)), fps)

\* script.scenes.map(...) with the captured currentFrame: acc holds the
\* entries already produced, currentFrame the running total
RECURSIVE MapSceneStarts(_, _, _, _)
MapSceneStarts(scenes, sd, acc, currentFrame) ==
    LET k == Len(acc)
    IN  IF k >= Len(scenes) THEN acc
        ELSE LET dur == SceneDur(scenes[k + 1], sd, k)
             IN  MapSceneStarts(scenes, sd,
                                Append(acc, [start |-> currentFrame, dur |-> dur]),
                                currentFrame + dur)

\* variant: the scenes are laid out after a two-second title card
SceneStartsAfterTitle(scenes, sd) == MapSceneStarts(scenes, sd, <<>>, 2 * fps)

SceneStarts(scenes, sd) == MapSceneStarts(scenes, sd, <<>>, 0)

\* indices of audioUrls that hold a clip
ClipIndices(urls) == {k \in 0 .. Len(urls) - 1 : urls[k + 1] # ""}

\* audioUrls.map(...): reading sceneStarts[i].start throws a TypeError when
\* the array holds a clip at an index the script has no scene for
AudioThrows(scenes, urls) == \E k \in ClipIndices(urls) : k >= Len(scenes)

RECURSIVE MapAudio(_, _, _, _)
MapAudio(urls, starts, acc, k) ==
    IF k >= Len(urls) THEN acc
    ELSE IF urls[k + 1] # ""
    THEN MapAudio(urls, starts,
                  Append(acc, [idx |-> k,
                               from |-> starts[k + 1].start + RoundDiv(fps * 5, 10)]),
                  k + 1)
    ELSE MapAudio(urls, starts, acc, k + 1)

\* the "Audio track(s)" expression; idx -1 is the single legacy track
AudioTracks(urls, url, starts) ==
    IF Len(urls) > 0 THEN MapAudio(urls, starts, <<>>, 0)
    ELSE IF url # "" THEN <<[idx |-> -1, from |-> 0]>>
    ELSE <<>>

\* one evaluation of the MathVideo component with the sceneDurations prop sd
MathVideo(sd) ==
    /\ vpc = "idle"
    /\ vSceneDurations' = sd
    /\ sceneStarts' = SceneStarts(script, sd)
    /\ IF AudioThrows(script, audioUrls)
       THEN /\ vpc' = "threw"
            /\ audioSeqs' = <<>>
            /\ sceneItems' = <<>>
       ELSE /\ vpc' = "rendered"
            /\ audioSeqs' = AudioTracks(audioUrls, audioUrl, SceneStarts(script, sd))
            /\ sceneItems' = [k \in 1 .. Len(script) |-> sceneComponent(script[k])]
    /\ UNCHANGED <<propVars, envVars>>

\* the composition renders MathVideo with the props calculateMetadata returned
MathVideoRender ==
    /\ pc = "done"
    /\ MathVideo(sceneDurations)
    /\ UNCHANGED metaVars

\* MathVideo evaluated with the request's own props, calculateMetadata not run
MathVideoDirect ==
    /\ pc = "loop"
    /\ i = 0
    /\ MathVideo(inSceneDurations)
    /\ pc' = "unused"
    /\ UNCHANGED <<i, sceneDurations, totalFrames, probes, visualFrames, durationInFrames>>

Next ==
    \/ LoopNoUrl
    \/ IssueProbe
    \/ \E ms \in AudioMs : ProbeResolve(ms)
    \/ ProbeThrow
    \/ Return
    \/ MathVideoRender
    \/ MathVideoDirect

Spec == Init /\ [][Next]_vars

----------------------------------------------------------------------------
(* The Item Animator on its own: pairs of item scenes with positive counts *)

\* Counter and Group scenes whose counts are all positive
AnimatorScenes ==
    {Scene("ADD_ITEMS", c, 0, 0, 0, <<>>) : c \in {n \in Counts : n >= 1}}
    \cup {Scene("GROUP_ITEMS", 0, g, p, 0, <<>>) :
            g \in {n \in Groups : n >= 1}, p \in {n \in PerGroups : n >= 1}}

\* scripts of two such scenes
AnimatorScripts == SeqsOfLen(AnimatorScenes, 2)

\* a request with no audio and no precomputed durations
InitAnimator ==
    /\ script \in AnimatorScripts
    /\ audioUrls = <<>>
    /\ audioUrl = ""
    /\ inSceneDurations = <<>>
    /\ pc = "loop"
    /\ i = 0
    /\ sceneDurations = <<>>
    /\ totalFrames = 0
    /\ probes = [k \in 1 .. Len(script) |-> NoProbe]
    /\ visualFrames = [k \in 1 .. Len(script) |-> NoVisual]
    /\ durationInFrames = 0
    /\ vpc = "idle"
    /\ vSceneDurations = <<>>
    /\ sceneStarts = <<>>
    /\ audioSeqs = <<>>
    /\ sceneItems = <<>>
    /\ EnvIdle

NextAnimator == MathVideoDirect

AnimatorSpec == InitAnimator /\ [][NextAnimator]_vars

----------------------------------------------------------------------------
(* The metadata phase on its own, with its scheduling *)

\* a narrated item scene and a group scene without narration
MetaScenes ==
    {Scene("ADD_ITEMS", 3, 0, 0, 0, DefaultNarration),
     Scene("GROUP_ITEMS", 0, 4, 5, 0, <<>>)}

\* scripts of these scenes, each scene with or without an audio reference
InitMeta ==
    /\ script \in SeqsUpTo(MetaScenes, MaxScenes) \ {<<>>}
    /\ audioUrls \in SeqsOfLen({"", "clip"}, Len(script))
    /\ audioUrl = ""
    /\ inSceneDurations = <<>>
    /\ pc = "loop"
    /\ i = 0
    /\ sceneDurations = <<>>
    /\ totalFrames = 0
    /\ probes = [k \in 1 .. Len(script) |-> NoProbe]
    /\ visualFrames = [k \in 1 .. Len(script) |-> NoVisual]
    /\ durationInFrames = 0
    /\ vpc = "idle"
    /\ vSceneDurations = <<>>
    /\ sceneStarts = <<>>
    /\ audioSeqs = <<>>
    /\ sceneItems = <<>>
    /\ EnvIdle

\* the steps calculateMetadata takes by itself: the event loop runs them
MetaStep ==
    \/ LoopNoUrl
    \/ IssueProbe
    \/ Return

\* the pending getAudioDurationInSeconds promise settles
ProbeSettles ==
    \/ \E ms \in AudioMs : ProbeResolve(ms)
    \/ ProbeThrow

NextMeta ==
    \/ LoopNoUrl
    \/ IssueProbe
    \/ \E ms \in AudioMs : ProbeResolve(ms)
    \/ ProbeThrow
    \/ Return

\* calculateMetadata keeps running, and every probe eventually settles
MetaFairSpec ==
    /\ InitMeta
    /\ [][NextMeta]_vars
    /\ WF_vars(MetaStep)
    /\ WF_vars(ProbeSettles)

----------------------------------------------------------------------------
(* calculateMetadata called a second time on the same props *)

\* variant: totalFrames lives outside the function and is not reset
RerunKeepsTotal ==
    /\ pc = "done"
    /\ ~prevRun.ran
    /\ prevRun' = [ran |-> TRUE, probes |-> probes, sceneDurations |-> sceneDurations,
                   durationInFrames |-> durationInFrames]
    /\ pc' = "loop"
    /\ i' = 0
    /\ sceneDurations' = <<>>
    /\ probes' = [k \in 1 .. Len(script) |-> NoProbe]
    /\ visualFrames' = [k \in 1 .. Len(script) |-> NoVisual]
    /\ UNCHANGED <<totalFrames, durationInFrames>>
    /\ UNCHANGED <<propVars, videoVars, serverVars, bundleVars, legacyVars, pageVars>>

\* a new call of calculateMetadata: let totalFrames = 0 and
\* const sceneDurations = [] are locals of the call; prevRun keeps what the
\* call before returned
Rerun ==
    /\ pc = "done"
    /\ ~prevRun.ran
    /\ prevRun' = [ran |-> TRUE, probes |-> probes, sceneDurations |-> sceneDurations,
                   durationInFrames |-> durationInFrames]
    /\ pc' = "loop"
    /\ i' = 0
    /\ sceneDurations' = <<>>
    /\ totalFrames' = 0
    /\ probes' = [k \in 1 .. Len(script) |-> NoProbe]
    /\ visualFrames' = [k \in 1 .. Len(script) |-> NoVisual]
    /\ UNCHANGED durationInFrames
    /\ UNCHANGED <<propVars, videoVars, serverVars, bundleVars, legacyVars, pageVars>>

\* scripts of one or two scenes, each scene with or without an audio reference
InitTwoRuns ==
    /\ InitMeta
    /\ Len(script) <= 2

NextTwoRuns ==
    \/ LoopNoUrl
    \/ IssueProbe
    \/ \E ms \in AudioMs : ProbeResolve(ms)
    \/ ProbeThrow
    \/ Return
    \/ Rerun

TwoRunSpec == InitTwoRuns /\ [][NextTwoRuns]_vars

----------------------------------------------------------------------------
(* The render server (render-api.js) *)

compositionVars == <<propVars, metaVars, videoVars>>

\* the composition before selectComposition has been called
CompositionIdle ==
    /\ script = <<>>
    /\ audioUrls = <<>>
    /\ audioUrl = ""
    /\ inSceneDurations = <<>>
    /\ pc = "off"
    /\ i = 0
    /\ sceneDurations = <<>>
    /\ totalFrames = 0
    /\ probes = <<>>
    /\ visualFrames = <<>>
    /\ durationInFrames = 0
    /\ vpc = "idle"
    /\ vSceneDurations = <<>>
    /\ sceneStarts = <<>>
    /\ audioSeqs = <<>>
    /\ sceneItems = <<>>

\* a request body: script may be missing, script.scenes may be no array
Body(hasScript, scenesIsArray, scenes, r) ==
    [kind |-> "body", hasScript |-> hasScript, scenesIsArray |-> scenesIsArray,
     scenes |-> scenes, audioUrl |-> r.audioUrl, audioUrls |-> r.audioUrls,
     sceneDurations |-> r.sceneDurations]

\* the audio and duration fields of the bodies for n scenes: no per-scene
\* clips or a clip for every scene
BodyProps(n) ==
    {r \in RequestProps(n) : r.audioUrls \in {<<>>, [k \in 1 .. n |-> "clip"]}}

RenderBodies ==
    {Body(FALSE, FALSE, <<>>, r) : r \in BodyProps(0)}
    \cup {Body(TRUE, FALSE, <<>>, r) : r \in BodyProps(0)}
    \cup UNION {{Body(TRUE, TRUE, sc, r) : r \in BodyProps(Len(sc))} :
                   sc \in RequestScripts}

\* variant: the length of the scene list is not looked at
InvalidScriptAllowsEmpty(body) ==
    \/ ~body.hasScript
    \/ ~body.scenesIsArray

\* !script || !Array.isArray(script.scenes) || script.scenes.length === 0
InvalidScript(body) ==
    \/ ~body.hasScript
    \/ ~body.scenesIsArray
    \/ Len(body.scenes) = 0

\* ensureBundle up to its await: return the cached bundle, or call bundle()
EnsureBundleCall(c) ==
    /\ ensure[c].pc = "idle"
    /\ IF bundled # 0
       THEN /\ ensure' = [ensure EXCEPT ![c] = [pc |-> "returned", id |-> 0, got |-> bundled]]
            /\ UNCHANGED bundleCalls
       ELSE /\ bundleCalls' = bundleCalls + 1
            /\ ensure' = [ensure EXCEPT ![c] =
                             [pc |-> "awaiting", id |-> bundleCalls + 1, got |-> 0]]
    /\ UNCHANGED bundled

\* bundle() resolves for caller c: bundled = <its result>; return bundled
BundleResolve(c) ==
    /\ ensure[c].pc = "awaiting"
    /\ bundled' = ensure[c].id
    /\ ensure' = [ensure EXCEPT ![c].pc = "returned", ![c].got = ensure[c].id]
    /\ UNCHANGED <<bundleCalls, reqBody, spc, res, inputProps>>
    /\ UNCHANGED <<compositionVars, prevRun, legacyVars, pageVars>>

\* bundle() rejects for caller c: ensureBundle throws, bundled stays as it is
BundleReject(c) ==
    /\ ensure[c].pc = "awaiting"
    /\ ensure' = [ensure EXCEPT ![c].pc = "failed"]
    /\ UNCHANGED <<bundled, bundleCalls, reqBody, spc, res, inputProps>>
    /\ UNCHANGED <<compositionVars, prevRun, legacyVars, pageVars>>

\* app.listen callback: ensureBundle().catch(...)
StartupPreBundle ==
    /\ EnsureBundleCall("startup")
    /\ UNCHANGED <<reqBody, spc, res, inputProps>>
    /\ UNCHANGED <<compositionVars, prevRun, legacyVars, pageVars>>

\* app.post("/render") up to its first await: validation, then ensureBundle()
PostRender(body) ==
    /\ spc = "idle"
    /\ reqBody' = body
    /\ IF InvalidScript(body)
       THEN /\ res' = 400
            /\ spc' = "responded"
            /\ UNCHANGED bundleVars
       ELSE /\ EnsureBundleCall("render1")
            /\ spc' = "bundling"
            /\ UNCHANGED res
    /\ UNCHANGED inputProps
    /\ UNCHANGED <<compositionVars, prevRun, legacyVars, pageVars>>

\* const inputProps = { script, audioUrl }; selectComposition merges them over
\* the defaultProps (audioUrls and sceneDurations undefined) and starts
\* calculateMetadata
HandlerSelect ==
    /\ spc = "bundling"
    /\ ensure["render1"].pc = "returned"
    /\ inputProps' = [kind |-> "props", scenes |-> reqBody.scenes, audioUrl |-> reqBody.audioUrl]
    /\ script' = reqBody.scenes
    /\ audioUrl' = reqBody.audioUrl
    /\ audioUrls' = <<>>
    /\ inSceneDurations' = <<>>
    /\ pc' = "loop"
    /\ probes' = [k \in 1 .. Len(reqBody.scenes) |-> NoProbe]
    /\ visualFrames' = [k \in 1 .. Len(reqBody.scenes) |-> NoVisual]
    /\ spc' = "selecting"
    /\ UNCHANGED <<i, sceneDurations, totalFrames, durationInFrames>>
    /\ UNCHANGED <<videoVars, reqBody, res, bundleVars, prevRun, legacyVars, pageVars>>

\* the catch block: ensureBundle threw
HandlerCatch ==
    /\ spc = "bundling"
    /\ ensure["render1"].pc = "failed"
    /\ res' = 500
    /\ spc' = "responded"
    /\ UNCHANGED <<reqBody, inputProps, bundleVars>>
    /\ UNCHANGED <<compositionVars, prevRun, legacyVars, pageVars>>

\* renderMedia has evaluated the composition: res.json(...), or the catch
\* block when the render threw
HandlerRespond ==
    /\ spc = "selecting"
    /\ vpc # "idle"
    /\ res' = IF vpc = "rendered" THEN 200 ELSE 500
    /\ spc' = "responded"
    /\ UNCHANGED <<reqBody, inputProps, bundleVars>>
    /\ UNCHANGED <<compositionVars, prevRun, legacyVars, pageVars>>

InitServer ==
    /\ CompositionIdle
    /\ EnvIdle

NextServer ==
    \/ StartupPreBundle
    \/ \E body \in RenderBodies : PostRender(body)
    \/ \E c \in Callers : BundleResolve(c)
    \/ \E c \in Callers : BundleReject(c)
    \/ HandlerSelect
    \/ HandlerCatch
    \/ LoopNoUrl
    \/ Return
    \/ MathVideoRender
    \/ HandlerRespond

ServerSpec == InitServer /\ [][NextServer]_vars

\* a /render handler other than the one followed above calls ensureBundle
OtherRenderBundle ==
    /\ EnsureBundleCall("render2")
    /\ UNCHANGED <<reqBody, spc, res, inputProps>>
    /\ UNCHANGED <<compositionVars, prevRun, legacyVars, pageVars>>

\* a /render handler calls ensureBundle, its request not followed further
RenderBundle ==
    /\ EnsureBundleCall("render1")
    /\ UNCHANGED <<reqBody, spc, res, inputProps>>
    /\ UNCHANGED <<compositionVars, prevRun, legacyVars, pageVars>>

\* the callers of ensureBundle interleaved: the start-up pre-bundle and two
\* /render requests
NextBundle ==
    \/ StartupPreBundle
    \/ RenderBundle
    \/ OtherRenderBundle
    \/ \E c \in Callers : BundleResolve(c)
    \/ \E c \in Callers : BundleReject(c)

BundleSpec == InitServer /\ [][NextBundle]_vars

----------------------------------------------------------------------------
(* The hint-duration revision: legacy Root.tsx and MathVideo.tsx *)

\* Math.ceil(n / d) for d > 0
CeilDiv(n, d) == -((-n) \div d)

\* scene.duration values, in hundredths of a second
LegacyDurations == {-100, 0, 50, 100, 250, 255, 500}

LegacyScripts == SeqsUpTo(LegacyDurations, MaxScenes)

\* Math.max(1, s.duration), in hundredths of a second
LegacySeconds(duration) == Max(100, duration)

RECURSIVE LegacyTotalSeconds(_)
\* 2 + scenes.reduce((sum, s) => sum + Math.max(1, s.duration), 0), in hundredths
LegacyTotalSeconds(scenes) ==
    IF scenes = <<>> THEN 200
    ELSE LegacyTotalSeconds(SubSeq(scenes, 1, Len(scenes) - 1))
            + LegacySeconds(scenes[Len(scenes)])

\* titleDuration = 2 * fps, in hundredths of a frame
LegacyTitleDuration == 2 * fps * 100

RECURSIVE LegacyMapSceneStarts(_, _, _)
\* script.scenes.map(...): dur = Math.max(1, scene.duration) * fps, in
\* hundredths of a frame
LegacyMapSceneStarts(scenes, acc, currentFrame) ==
    LET k == Len(acc)
    IN  IF k >= Len(scenes) THEN acc
        ELSE LET dur == LegacySeconds(scenes[k + 1]) * fps
             IN  LegacyMapSceneStarts(scenes,
                                      Append(acc, [start |-> currentFrame, dur |-> dur]),
                                      currentFrame + dur)

\* the legacy calculateMetadata: Math.ceil(totalSeconds * FPS), in frames
LegacyCalculateMetadata ==
    /\ lpc = "idle"
    /\ legacyDuration' = CeilDiv(LegacyTotalSeconds(legacyScenes) * FPS, 100)
    /\ lpc' = "metadata"
    /\ UNCHANGED <<legacyScenes, legacyStarts>>
    /\ UNCHANGED <<compositionVars, prevRun, serverVars, bundleVars, pageVars>>

\* one evaluation of the legacy MathVideo component
LegacyMathVideo ==
    /\ lpc = "metadata"
    /\ legacyStarts' = LegacyMapSceneStarts(legacyScenes, <<>>, LegacyTitleDuration)
    /\ lpc' = "rendered"
    /\ UNCHANGED <<legacyScenes, legacyDuration>>
    /\ UNCHANGED <<compositionVars, prevRun, serverVars, bundleVars, pageVars>>

InitLegacy ==
    /\ CompositionIdle
    /\ prevRun = NoRun
    /\ ServerIdle
    /\ PageIdle
    /\ legacyScenes \in LegacyScripts
    /\ lpc = "idle"
    /\ legacyStarts = <<>>
    /\ legacyDuration = 0

NextLegacy ==
    \/ LegacyCalculateMetadata
    \/ LegacyMathVideo

LegacySpec == InitLegacy /\ [][NextLegacy]_vars

----------------------------------------------------------------------------
(* The child page: loadAttempts and chooseChild *)

\* the child profiles listed on the page
Children == {"c1", "c2"}

\* chooseChild from a profile card, shown while no child is selected; the
\* effect on selectedChildId then calls loadAttempts, which issues
\* api.getActivity(childId, 10)
chooseChild(child) ==
    /\ selectedChildId = ""
    /\ Len(requests) < MaxRequests
    /\ selectedChildId' = child
    /\ requests' = Append(requests, [childId |-> child, status |-> "pending"])
    /\ UNCHANGED attempts
    /\ UNCHANGED <<compositionVars, prevRun, serverVars, bundleVars, legacyVars>>

\* the Switch Profile button: setSelectedChildIdState(null); the effect then
\* calls setAttempts([])
SwitchProfile ==
    /\ selectedChildId # ""
    /\ selectedChildId' = ""
    /\ attempts' = ""
    /\ UNCHANGED requests
    /\ UNCHANGED <<compositionVars, prevRun, serverVars, bundleVars, legacyVars>>

\* api.getActivity of request n resolves: setAttempts(recent)
ActivityResolve(n) ==
    /\ n <= Len(requests)
    /\ requests[n].status = "pending"
    /\ attempts' = requests[n].childId
    /\ requests' = [requests EXCEPT ![n].status = "settled"]
    /\ UNCHANGED selectedChildId
    /\ UNCHANGED <<compositionVars, prevRun, serverVars, bundleVars, legacyVars>>

\* api.getActivity of request n rejects: setAttempts([])
ActivityReject(n) ==
    /\ n <= Len(requests)
    /\ requests[n].status = "pending"
    /\ attempts' = ""
    /\ requests' = [requests EXCEPT ![n].status = "settled"]
    /\ UNCHANGED selectedChildId
    /\ UNCHANGED <<compositionVars, prevRun, serverVars, bundleVars, legacyVars>>

InitPage ==
    /\ CompositionIdle
    /\ EnvIdle

NextPage ==
    \/ \E child \in Children : chooseChild(child)
    \/ SwitchProfile
    \/ \E n \in 1 .. MaxRequests : ActivityResolve(n)
    \/ \E n \in 1 .. MaxRequests : ActivityReject(n)

PageSpec == InitPage /\ [][NextPage]_vars

----------------------------------------------------------------------------
(* Properties *)

RECURSIVE SumDur(_)
SumDur(starts) ==
    IF starts = <<>> THEN 0
    ELSE starts[Len(starts)].dur + SumDur(SubSeq(starts, 1, Len(starts) - 1))

\* MathVideo has computed its sceneStarts
Scheduled == vpc \in {"rendered", "threw"}

\* the length calculateMetadata owes scene k (0-based), from the scene's own
\* audio reference, probe outcome and fields only
OwnFrames(k) ==
    LET p == probes[k + 1]
    IN  IF p.kind = "ok" THEN NegotiatedFrames(script[k + 1], p.ms)
        ELSE IF p.kind = "throw" THEN 4 * FPS
        ELSE LegacyFallbackFrames(script[k + 1].narration)

\* C1: the timeline MathVideo builds has one entry per scene, the first scene
\* starts at frame 0, every scene starts where the previous one ends, and a
\* scene's start is the sum of the lengths of all earlier scenes.
C1_GapFree ==
    Scheduled =>
        /\ Len(sceneStarts) = Len(script)
        /\ sceneStarts[1].start = 0
        /\ \A k \in 1 .. Len(sceneStarts) - 1 :
              sceneStarts[k + 1].start = sceneStarts[k].start + sceneStarts[k].dur
        /\ \A k \in 1 .. Len(sceneStarts) :
              sceneStarts[k].start = SumDur(SubSeq(sceneStarts, 1, k - 1))

C1_Witness ==
    /\ vpc = "rendered"
    /\ Len(sceneStarts) = 3
    /\ sceneStarts[1].dur # sceneStarts[2].dur
    /\ sceneStarts[2].dur # sceneStarts[3].dur
    /\ sceneStarts[3].start > sceneStarts[2].start

\* C2: the durationInFrames returned by calculateMetadata equals the sum of
\* the lengths MathVideo schedules from the returned sceneDurations, and the
\* last scene ends exactly at durationInFrames.
C2_TotalMatches ==
    (pc = "done" /\ Scheduled) =>
        /\ durationInFrames = SumDur(sceneStarts)
        /\ LET last == sceneStarts[Len(sceneStarts)]
           IN  last.start + last.dur = durationInFrames

C2_Witness ==
    /\ pc = "done"
    /\ vpc = "rendered"
    /\ \E a, b, c \in 1 .. Len(script) :
          /\ probes[a].kind = "ok"
          /\ probes[b].kind = "throw"
          /\ probes[c].kind = "none"

\* C3: when calculateMetadata returns, sceneDurations has exactly one entry
\* per scene and entry k is the length owed to scene k, whatever the probe
\* outcomes; nothing is returned or rendered from a partly built array.
C3_OneEntryPerScene ==
    /\ pc = "done" =>
          /\ Len(sceneDurations) = Len(script)
          /\ \A k \in 0 .. Len(script) - 1 :
                /\ probes[k + 1].kind # "pending"
                /\ sceneDurations[k + 1] = OwnFrames(k)
    /\ pc \in {"loop", "await"} =>
          /\ vpc = "idle"
          /\ durationInFrames = 0
          /\ Len(sceneDurations) = i

C3_Witness ==
    /\ pc = "done"
    /\ Len(script) = 3
    /\ probes[1].kind = "throw"
    /\ probes[2].kind = "none"
    /\ probes[3].kind = "ok"
    /\ script[1] # script[2]
    /\ script[2] # script[3]

\* r = round(n / d), stated without RoundDiv: r - 1/2 <= n / d < r + 1/2
IsRound(r, n, d) == 2 * r * d - d <= 2 * n /\ 2 * n < 2 * r * d + d

\* scene k (0-based) has received its entry of sceneDurations
Pushed(k) == k + 1 <= Len(sceneDurations)

\* C4: a scene whose probe succeeded with audio_seconds gets
\* max(round((audio_seconds + 1.0) * fps), visual_frames + round(fps * 0.5));
\* ADD_ITEMS with count 3 (57 visual frames) and 2.4 s of audio gets 82 frames.
C4_AudioNegotiated ==
    \A k \in 0 .. Len(script) - 1 :
        (probes[k + 1].kind = "ok" /\ Pushed(k)) =>
            LET L == sceneDurations[k + 1]
                ms == probes[k + 1].ms
                padded == getVisualFrames(script[k + 1]) + 12
            IN  /\ L >= padded
                /\ \/ IsRound(L, (ms + 1000) * 24, 1000)
                   \/ L = padded /\ 2 * (ms + 1000) * 24 < (2 * padded + 1) * 1000
                /\ (script[k + 1].action = "ADD_ITEMS" /\ script[k + 1].count = 3
                        /\ ms = 2400) =>
                      (getVisualFrames(script[k + 1]) = 57 /\ L = 82)

C4_Witness ==
    /\ pc = "done"
    /\ Len(script) = 1
    /\ script[1].action = "ADD_ITEMS"
    /\ script[1].count = 3
    /\ probes[1] = [kind |-> "ok", ms |-> 2400]
    /\ sceneDurations = <<82>>

\* the number of words of a narration: maximal runs of non-white-space characters
WordCount(s) ==
    Cardinality({k \in 1 .. Len(s) : ~IsWs(s[k]) /\ (k = 1 \/ IsWs(s[k - 1]))})

\* a narration without any word
Blank(s) == \A k \in 1 .. Len(s) : IsWs(s[k])

\* the text-length heuristic as the specification words it, at 24 fps
TextHeuristic(s) ==
    IF Blank(s) THEN 96
    ELSE LET w == WordCount(s)
         IN  CHOOSE r \in 72 .. 10 * w + 72 : IsRound(r, Max(30, 4 * w + 15) * 24, 10)

\* C5 as stated: a scene whose probe failed gets the text-length heuristic
\* (4 * fps for an empty narration, round(max(3, words/2.5 + 1.5) * fps) otherwise).
C5_FailureUsesHeuristic ==
    \A k \in 0 .. Len(script) - 1 :
        (probes[k + 1].kind = "throw" /\ Pushed(k)) =>
            sceneDurations[k + 1] = TextHeuristic(script[k + 1].narration)

\* C5 amended: a scene whose probe failed gets 4 * fps whatever its narration;
\* this is the value of the text-length heuristic only for a narration
\* without words.
C5_FailureUsesFixedFallback ==
    \A k \in 0 .. Len(script) - 1 :
        (probes[k + 1].kind = "throw" /\ Pushed(k)) =>
            /\ sceneDurations[k + 1] = 4 * 24
            /\ (sceneDurations[k + 1] = TextHeuristic(script[k + 1].narration))
                  <=> Blank(script[k + 1].narration)

C5_Witness ==
    /\ pc = "done"
    /\ \E k \in 1 .. Len(script) :
          /\ probes[k].kind = "throw"
          /\ script[k].narration = ScenarioANarration
          /\ sceneDurations[k] = 96

\* C6: a rejected probe is caught: calculateMetadata never ends in an error,
\* the scene of the rejected probe has its entry, 4 seconds of frames, and
\* the loop goes on.
C6_FailureRecovered ==
    /\ pc # "error"
    /\ \A k \in 0 .. Len(script) - 1 :
          probes[k + 1].kind = "throw" =>
              /\ Pushed(k)
              /\ sceneDurations[k + 1] = 4 * FPS
              /\ i > k
              /\ pc \in {"loop", "await", "done"}

C6_Witness ==
    /\ pc = "done"
    /\ Len(script) = 2
    /\ probes[1].kind = "throw"
    /\ probes[2].kind = "ok"
    /\ sceneDurations[1] = 96
    /\ durationInFrames = 96 + sceneDurations[2]

\* C7: in a run where the probe of some scene t was rejected, every other
\* scene j still has the length that its own reference, probe result and
\* fields give it, the array is complete, and the timeline scheduled from it
\* is complete and gap-free.
C7_FailureIsLocal ==
    \A t \in 0 .. Len(script) - 1 :
        (pc = "done" /\ probes[t + 1].kind = "throw") =>
            /\ Len(sceneDurations) = Len(script)
            /\ \A j \in (0 .. Len(script) - 1) \ {t} :
                  /\ probes[j + 1].kind = "ok" =>
                        sceneDurations[j + 1] = NegotiatedFrames(script[j + 1], probes[j + 1].ms)
                  /\ probes[j + 1].kind = "none" =>
                        sceneDurations[j + 1] = LegacyFallbackFrames(script[j + 1].narration)
                  /\ probes[j + 1].kind = "none" <=> UrlAt(audioUrls, j) = ""
            /\ Scheduled =>
                  /\ Len(sceneStarts) = Len(script)
                  /\ \A j \in 0 .. Len(script) - 1 :
                        /\ sceneStarts[j + 1].dur = sceneDurations[j + 1]
                        /\ sceneStarts[j + 1].start =
                              SumDur(SubSeq(sceneStarts, 1, j))

C7_Witness ==
    /\ pc = "done"
    /\ vpc = "rendered"
    /\ Len(script) = 3
    /\ probes[1].kind = "ok"
    /\ probes[2].kind = "throw"
    /\ probes[3].kind = "ok"
    /\ probes[3].ms = 2400
    /\ sceneDurations[1] # 96
    /\ sceneDurations[3] # 96

\* C8 as stated: the probes of different scenes are independent; a probe
\* that is pending (slow, or never settling) does not keep the probe of
\* another scene with an audio reference from being issued.
C8_ProbesIndependent ==
    \A k, j \in 0 .. Len(script) - 1 :
        (probes[k + 1].kind = "pending" /\ j # k /\ UrlAt(audioUrls, j) # "") =>
            probes[j + 1].kind # "none"

\* C9 as stated: a scene without audio reference gets 4 * fps when its
\* narration is empty or white space only, and otherwise
\* round(max(3, words/2.5 + 1.5) * fps) with words the number of maximal runs
\* of non-white-space characters, leading or trailing white space included;
\* in calculateMetadata and in MathVideo's own branch.
C9_NoReferenceHeuristic ==
    /\ \A k \in 0 .. Len(script) - 1 :
          (probes[k + 1].kind = "none" /\ Pushed(k)) =>
              sceneDurations[k + 1] = TextHeuristic(script[k + 1].narration)
    /\ (Scheduled /\ vSceneDurations = <<>>) =>
          \A k \in 0 .. Len(script) - 1 :
              sceneStarts[k + 1].dur = TextHeuristic(script[k + 1].narration)

\* C10 as stated: a SHOW_EQUATION scene without audio reference whose narration is
\* "3 plus 5 equals 8! Great job!" is counted as 6 words and is 94 frames
\* long, in sceneDurations and in the timeline MathVideo schedules.
C10_ScenarioA ==
    \A k \in 0 .. Len(script) - 1 :
        (/\ script[k + 1].action = "SHOW_EQUATION"
         /\ script[k + 1].narration = ScenarioANarration
         /\ UrlAt(audioUrls, k) = "") =>
            /\ Pushed(k) =>
                  /\ Len(split(script[k + 1].narration)) = 6
                  /\ sceneDurations[k + 1] = 94
            /\ (Scheduled /\ (pc = "done" \/ vSceneDurations = <<>>)) =>
                  sceneStarts[k + 1].dur = 94

\* C10 amended: a SHOW_EQUATION scene without audio reference whose narration is
\* "3 plus 5 equals 8! Great job!" is counted as 7 words and is
\* round(4.3 * 24) = 103 frames long, in sceneDurations and in the timeline MathVideo schedules.
C10_ScenarioA_SevenWords ==
    \A k \in 0 .. Len(script) - 1 :
        (/\ script[k + 1].action = "SHOW_EQUATION"
         /\ script[k + 1].narration = ScenarioANarration
         /\ UrlAt(audioUrls, k) = "") =>
            /\ Pushed(k) =>
                  /\ Len(split(script[k + 1].narration)) = 7
                  /\ sceneDurations[k + 1] = 103
            /\ (Scheduled /\ (pc = "done" \/ vSceneDurations = <<>>)) =>
                  sceneStarts[k + 1].dur = 103

C10_Witness ==
    /\ pc = "done"
    /\ vpc = "rendered"
    /\ Len(script) = 1
    /\ script[1].action = "SHOW_EQUATION"
    /\ script[1].narration = ScenarioANarration
    /\ audioUrls = <<>>
    /\ sceneDurations = <<103>>
    /\ sceneStarts = <<[start |-> 0, dur |-> 103]>>
    /\ durationInFrames = 103

\* C11 as stated: in every negotiation branch the length of a scene is at
\* least the Estimator's visual frames for the scene and, when its audio was
\* probed, at least visual_frames + round(fps * 0.5) and at least audio_frames.
C11_LengthCoversVisuals ==
    \A k \in 0 .. Len(script) - 1 :
        Pushed(k) =>
            LET L == sceneDurations[k + 1]
            IN  /\ L >= getVisualFrames(script[k + 1])
                /\ probes[k + 1].kind = "ok" =>
                      /\ visualFrames[k + 1].computed
                      /\ L >= visualFrames[k + 1].frames + 12
                      /\ 2 * (probes[k + 1].ms + 1000) * 24 < (2 * L + 1) * 1000

\* scene k (0-based) has had its visual frames computed by the Estimator
Estimated(k) == visualFrames[k + 1].computed

PerGroupOrCount(scene) == IF scene.per_group # 0 THEN scene.per_group ELSE scene.count

\* an item scene (neither SHOW_EQUATION nor SPLIT_ITEM) whose fields are positive
PositiveItemScene(scene) ==
    /\ scene.action \notin {"SHOW_EQUATION", "SPLIT_ITEM"}
    /\ IF scene.action = "GROUP_ITEMS"
       THEN scene.groups > 0 /\ PerGroupOrCount(scene) > 0
       ELSE scene.count > 0

\* the total of the specification: capped product for groups, capped count otherwise
ItemTotal(scene) ==
    IF scene.action = "GROUP_ITEMS"
    THEN Min(scene.groups, 10) * Min(PerGroupOrCount(scene), 12)
    ELSE Min(scene.count, 30)

\* C13: for an item scene with positive fields the Estimator returns
\* round((total - 1) * max(1, 40 / total) + 30) with total the capped product
\* (GROUP_ITEMS) or the capped count (other actions); SHOW_EQUATION is 30;
\* groups=4, per_group=5 gives 68 and a single item gives 30.
C13_ItemFrames ==
    \A k \in 0 .. Len(script) - 1 :
        Estimated(k) =>
            LET scene == script[k + 1]
                f == visualFrames[k + 1].frames
                total == ItemTotal(scene)
            IN  /\ scene.action = "SHOW_EQUATION" => f = 30
                /\ PositiveItemScene(scene) =>
                      /\ IsRound(f, (total - 1) * Max(total, 40) + 30 * total, total)
                      /\ total = 1 => f = 30
                      /\ (scene.action = "GROUP_ITEMS" /\ scene.groups = 4
                            /\ scene.per_group = 5) => f = 68

C13_Witness ==
    /\ pc = "done"
    /\ \E k \in 1 .. Len(script) :
          /\ script[k].action = "GROUP_ITEMS"
          /\ script[k].groups = 4
          /\ script[k].per_group = 5
          /\ visualFrames[k] = [computed |-> TRUE, frames |-> 68]

\* an item scene one of whose counts is zero or negative
MalformedItemScene(scene) ==
    /\ scene.action \notin {"SHOW_EQUATION", "SPLIT_ITEM"}
    /\ IF scene.action = "GROUP_ITEMS"
       THEN scene.groups <= 0 \/ scene.per_group <= 0 \/ scene.count <= 0
       ELSE scene.count <= 0

\* C14 as stated: for an item scene whose count, groups or per_group is zero
\* or negative the Estimator uses a total of at least 1 and returns at least
\* the 30-frame settle time.
C14_CountsClamped ==
    \A k \in 0 .. Len(script) - 1 :
        (Estimated(k) /\ MalformedItemScene(script[k + 1])) =>
            /\ EstimatorTotal(script[k + 1]) >= 1
            /\ visualFrames[k + 1].frames >= 30

\* scene k (0-based) was rendered in the Counter or the Group layout
ItemLayout(k) ==
    /\ vpc = "rendered"
    /\ sceneItems[k + 1].layout \in {"Counter", "Group"}

\* C15: for a scene in the Counter or Group layout the Item Animator works
\* with the Estimator's total and stagger, the delay of the last item plus
\* the 30-frame settle time is the Estimator's visual_frames, and every
\* item's delay + 30 is at most visual_frames.
C15_AnimatorMatchesEstimator ==
    \A k \in 0 .. Len(script) - 1 :
        (ItemLayout(k) /\ Estimated(k)) =>
            LET item == sceneItems[k + 1]
                n == Len(item.delays)
                vf == visualFrames[k + 1].frames
            IN  /\ item.total = EstimatorTotal(script[k + 1])
                /\ n > 0 =>
                      /\ n = item.total
                      /\ AnimatorStagger(item.total).num * EstimatorStagger(item.total).den
                            = EstimatorStagger(item.total).num * AnimatorStagger(item.total).den
                      /\ IsRound(item.delays[n],
                                 (n - 1) * EstimatorStagger(item.total).num,
                                 EstimatorStagger(item.total).den)
                      /\ item.delays[n] + 30 = vf
                      /\ \A m \in 1 .. n : item.delays[m] + 30 <= vf

C15_Witness ==
    /\ pc = "done"
    /\ vpc = "rendered"
    /\ Len(script) = 1
    /\ script[1].action = "GROUP_ITEMS"
    /\ visualFrames[1] = [computed |-> TRUE, frames |-> 68]
    /\ sceneItems[1].total = 20
    /\ Len(sceneItems[1].delays) = 20
    /\ sceneItems[1].delays[20] = 38

\* C16: in every rendered Counter or Group scene the entrance delay of the
\* last item is below the 40-frame budget, whatever the counts.
C16_SpreadWithinBudget ==
    \A k \in 0 .. Len(script) - 1 :
        ItemLayout(k) =>
            \A m \in 1 .. Len(sceneItems[k + 1].delays) :
                sceneItems[k + 1].delays[m] < 40

\* C17: for totals of at least 1 the stagger max(1, 40 / total) does not
\* grow with the total, and within a scene the delay round(i * stagger) is 0
\* for the first item and does not decrease with the item index.
C17_StaggerMonotone ==
    vpc = "rendered" =>
        /\ \A j, k \in 1 .. Len(sceneItems) :
              (1 <= sceneItems[j].total /\ sceneItems[j].total <= sceneItems[k].total) =>
                  LET sj == AnimatorStagger(sceneItems[j].total)
                      sk == AnimatorStagger(sceneItems[k].total)
                  IN  sj.num * sk.den >= sk.num * sj.den
        /\ \A k \in 1 .. Len(sceneItems) :
              LET d == sceneItems[k].delays
              IN  /\ Len(d) = sceneItems[k].total
                  /\ d[1] = 0
                  /\ \A m \in 1 .. Len(d) - 1 : d[m] <= d[m + 1]

C17_Witness ==
    /\ vpc = "rendered"
    /\ sceneItems[1].total = 3
    /\ sceneItems[1].delays = <<0, 13, 27>>
    /\ sceneItems[2].total = 120
    /\ sceneItems[2].delays[120] = 119

\* the audio placement of a render attempt: every present clip of a scene is
\* scheduled at that scene's start plus round(fps * 0.5), and nothing else is
PerSceneAudioPlaced ==
    /\ \A k \in ClipIndices(audioUrls) :
          k < Len(script) =>
              \E n \in 1 .. Len(audioSeqs) :
                  audioSeqs[n] = [idx |-> k,
                                  from |-> sceneStarts[k + 1].start + RoundDiv(fps * 5, 10)]
    /\ \A n \in 1 .. Len(audioSeqs) : audioSeqs[n].idx \in ClipIndices(audioUrls)
    /\ Len(audioSeqs) <= Cardinality(ClipIndices(audioUrls))

\* C18: in per-scene audio mode, once MathVideo has been evaluated, every
\* present clip starts at its scene's start frame + round(fps * 0.5) and a
\* missing clip schedules nothing and shifts no other clip.
C18_ClipsPlaced ==
    (vpc # "idle" /\ Len(audioUrls) > 0) => PerSceneAudioPlaced

\* C19: evaluating MathVideo (scene starts, scene dispatch, audio placement)
\* raises no exception, whatever the audioUrls, the sceneDurations and the
\* numeric fields of the scenes.
C19_RenderNeverThrows == vpc # "threw"

\* the request carries the single legacy track and no per-scene clips
LegacyTrackOnly == audioUrl # "" /\ audioUrls = <<>>

\* C20: with only audioUrl in the request exactly one clip is scheduled, at
\* frame 0 of the timeline, no per-scene clip is scheduled and no probe is
\* made, and every scene's length is the text-length heuristic of its
\* narration, in sceneDurations and in the timeline MathVideo builds from
\* them or on its own.
C20_LegacySingleTrack ==
    LegacyTrackOnly =>
        /\ \A k \in 0 .. Len(script) - 1 :
              /\ probes[k + 1].kind = "none"
              /\ Pushed(k) =>
                    sceneDurations[k + 1] = TextHeuristic(script[k + 1].narration)
        /\ Scheduled =>
              /\ audioSeqs = <<[idx |-> -1, from |-> 0]>>
              /\ (pc = "done" \/ vSceneDurations = <<>>) =>
                    \A k \in 0 .. Len(script) - 1 :
                        sceneStarts[k + 1].dur = TextHeuristic(script[k + 1].narration)

\* C21: a /render request with per-scene audioUrls gets them through to the
\* composition: once the handler has answered 200, every scene with a clip
\* in the request had its clip probed and the clip is placed at that scene's
\* start + round(fps * 0.5).
C21_AudioUrlsReachComposition ==
    res = 200 =>
        /\ audioUrls = reqBody.audioUrls
        /\ \A k \in ClipIndices(reqBody.audioUrls) :
              k < Len(script) =>
                  /\ probes[k + 1].kind \in {"ok", "throw"}
                  /\ \E n \in 1 .. Len(audioSeqs) :
                        audioSeqs[n] = [idx |-> k,
                                        from |-> sceneStarts[k + 1].start + RoundDiv(fps * 5, 10)]

\* the /render handler has not gone past its validation
HandlerStoppedAtValidation ==
    /\ spc = "responded"
    /\ ensure["render1"].pc = "idle"
    /\ inputProps.kind = "none"
    /\ pc = "off"
    /\ vpc = "idle"

\* C24: a request without script, with a scenes field that is no array, or
\* with an empty scene list is answered 400 and the handler bundles, selects
\* and renders nothing for it; calculateMetadata and MathVideo never run on
\* zero scenes.
C24_EmptyScriptRejected ==
    /\ (reqBody.kind = "body" /\ (~reqBody.hasScript \/ ~reqBody.scenesIsArray
                                   \/ Len(reqBody.scenes) = 0)) =>
          res = 400 /\ HandlerStoppedAtValidation
    /\ (pc # "off" \/ vpc # "idle") => Len(script) > 0

C24_Witness ==
    /\ reqBody.kind = "body"
    /\ reqBody.hasScript
    /\ reqBody.scenesIsArray
    /\ reqBody.scenes = <<>>
    /\ res = 400
    /\ ensure["startup"].pc = "awaiting"
    /\ bundleCalls = 1

\* the request supplies a positive precomputed duration for every scene
Precomputed ==
    /\ Len(inSceneDurations) = Len(script)
    /\ \A k \in 1 .. Len(script) : inSceneDurations[k] > 0

\* C22: with a precomputed per-scene duration array in the request no audio
\* probe is issued, and the supplied durations are the scene lengths that
\* calculateMetadata returns, that MathVideo lays out, and whose sum is
\* durationInFrames.
C22_PrecomputedSkipsNegotiation ==
    Precomputed =>
        /\ \A k \in 1 .. Len(script) : probes[k].kind = "none"
        /\ pc = "done" =>
              /\ sceneDurations = inSceneDurations
              /\ durationInFrames = SumDur([k \in 1 .. Len(script) |->
                                               [start |-> 0, dur |-> inSceneDurations[k]]])
        /\ (pc = "done" /\ Scheduled) =>
              \A k \in 1 .. Len(script) : sceneStarts[k].dur = inSceneDurations[k]

\* C23 as stated: in the hint-duration revision every scene is
\* round(max(1, scene.duration) * fps) whole frames long, the first scene
\* starts at frame 0, every scene starts where the previous one ends, and
\* durationInFrames is the sum of the scene lengths.
C23_LegacyHintDurations ==
    lpc = "rendered" =>
        /\ Len(legacyStarts) = Len(legacyScenes)
        /\ \A k \in 1 .. Len(legacyStarts) :
              /\ legacyStarts[k].dur % 100 = 0
              /\ IsRound(legacyStarts[k].dur \div 100,
                         Max(100, legacyScenes[k]) * 24, 100)
              /\ legacyStarts[k].start =
                    IF k = 1 THEN 0 ELSE legacyStarts[k - 1].start + legacyStarts[k - 1].dur
        /\ legacyDuration * 100 = SumDur(legacyStarts)

\* calculateMetadata has returned with one duration per scene
MetadataComplete == pc = "done" /\ Len(sceneDurations) = Len(script)

\* C25: when every audio probe eventually settles, calculateMetadata
\* eventually returns with a duration for every scene; and it has returned
\* only if the probe of every scene with an audio reference has settled.
C25_MetadataCompletes ==
    /\ <>MetadataComplete
    /\ [](pc = "done" =>
            \A k \in 0 .. Len(script) - 1 :
                UrlAt(audioUrls, k) # "" => probes[k + 1].kind \in {"ok", "throw"})

C25_Witness ==
    /\ MetadataComplete
    /\ Len(script) >= 2
    /\ \E j, k \in 1 .. Len(script) :
          probes[j].kind = "ok" /\ probes[k].kind = "throw"

\* C26: a second run of calculateMetadata on the same script whose probes
\* give the same results returns the same per-scene frame counts and the
\* same total as the first; and what the second run returns depends on its
\* own script and probe results only, whatever the first run saw.
C26_Deterministic ==
    (pc = "done" /\ prevRun.ran) =>
        /\ probes = prevRun.probes =>
              /\ sceneDurations = prevRun.sceneDurations
              /\ durationInFrames = prevRun.durationInFrames
        /\ \A k \in 0 .. Len(script) - 1 : sceneDurations[k + 1] = OwnFrames(k)
        /\ durationInFrames =
              SumDur([k \in 1 .. Len(script) |-> [start |-> 0, dur |-> OwnFrames(k - 1)]])

C26_Witness ==
    /\ pc = "done"
    /\ prevRun.ran
    /\ Len(script) = 2
    /\ probes = prevRun.probes
    /\ probes[1].kind = "ok"
    /\ probes[2].kind = "throw"
    /\ sceneDurations = prevRun.sceneDurations

\* C27: with non-negative probed durations every scene length the metadata
\* phase pushes is at least 24 frames, in the negotiated, the failed-probe
\* and the text-length branch; so MathVideo, rendered with these lengths,
\* takes each of them and never falls back to its own heuristic.
C27_AtLeastOneSecond ==
    /\ \A k \in 0 .. Len(script) - 1 : Pushed(k) => sceneDurations[k + 1] >= 24
    /\ (pc = "done" /\ Scheduled) =>
          \A k \in 1 .. Len(script) : sceneStarts[k].dur = sceneDurations[k]

C27_Witness ==
    /\ pc = "done"
    /\ vpc = "rendered"
    /\ probes[1] = [kind |-> "ok", ms |-> 0]
    /\ visualFrames[1].frames < 0
    /\ sceneDurations = <<24>>
    /\ sceneStarts[1].dur = 24

\* last frame (exclusive) of the clip of audioSeqs[n], probed as ms milliseconds
ClipEnd(n) ==
    audioSeqs[n].from + CeilDiv(probes[audioSeqs[n].idx + 1].ms * fps, 1000)

\* audioSeqs[n] is a per-scene clip whose probe succeeded
ProbedClip(n) ==
    /\ audioSeqs[n].idx >= 0
    /\ probes[audioSeqs[n].idx + 1].kind = "ok"

\* C28: in a render that follows the metadata phase, the clip of a scene
\* whose probe succeeded with d seconds starts at the scene's start +
\* round(fps * 0.5) and ends, ceil(d * fps) frames later, no later than the
\* scene ends, hence not after any later clip starts; the scene is at least
\* round((d + 1.0) * fps) frames long.
C28_ClipInsideScene ==
    (pc = "done" /\ vpc = "rendered") =>
        \A n \in 1 .. Len(audioSeqs) :
            ProbedClip(n) =>
                LET sc == sceneStarts[audioSeqs[n].idx + 1]
                IN  /\ audioSeqs[n].from = sc.start + RoundDiv(fps * 5, 10)
                    /\ ClipEnd(n) <= sc.start + sc.dur
                    /\ IsRound(AudioFrames(probes[audioSeqs[n].idx + 1].ms),
                               (probes[audioSeqs[n].idx + 1].ms + 1000) * 24, 1000)
                    /\ sc.dur >= AudioFrames(probes[audioSeqs[n].idx + 1].ms)
                    /\ \A m \in n + 1 .. Len(audioSeqs) : ClipEnd(n) <= audioSeqs[m].from

C28_Witness ==
    /\ pc = "done"
    /\ vpc = "rendered"
    /\ Len(audioSeqs) = 2
    /\ probes[1] = [kind |-> "ok", ms |-> 2400]
    /\ probes[2] = [kind |-> "ok", ms |-> 2400]
    /\ audioSeqs[1].from = 12
    /\ audioSeqs[2].from = sceneStarts[2].start + 12

\* C29: bundle() is invoked at most once per process, and all callers of
\* ensureBundle that have received a bundle have received the same one.
C29_BundledOnce ==
    /\ bundleCalls <= 1
    /\ \A c, d \in Callers :
          (ensure[c].pc = "returned" /\ ensure[d].pc = "returned") =>
              ensure[c].got = ensure[d].got

\* no api.getActivity request is pending
AllSettled == \A n \in 1 .. Len(requests) : requests[n].status = "settled"

\* C30: once every activity request has settled, the attempts shown are
\* those of the selected child or none, and none when no child is selected.
C30_AttemptsOfSelectedChild ==
    AllSettled => (attempts = "" \/ attempts = selectedChildId)

====
